---------------------------- MODULE Spec2Model ----------------------------
(***************************************************************************)
(* A model of promise-poc (src/index.js, and its shorter variant           *)
(* src/unnamed/part_000): a runner that executes demonstration scenarios   *)
(* over one simulated I/O primitive, fakeIO, on a single-threaded event    *)
(* loop.                                                                   *)
(*                                                                         *)
(* The event loop is modelled as JavaScript runs it: one timer callback    *)
(* fires at a time (FireTimer), the promise reactions it triggers are part *)
(* of the same step, and the suspended async function that becomes         *)
(* runnable is resumed before any other timer may fire (RunnerReady        *)
(* disables FireTimer): microtasks drain before the next macrotask.        *)
(* Time is a virtual clock in milliseconds that jumps to the due time of   *)
(* the timer that fires.                                                   *)
(*                                                                         *)
(* Math.random() is a nondeterministic draw; probabilities are written in  *)
(* percent (0.65 is 65), the draw ranging over [0, 100).                   *)
(***************************************************************************)
EXTENDS Integers, Sequences, FiniteSets, TLC

VARIABLES
    entry,      \* what is being run: a main() or one function with its arguments
    now,        \* the clock, in ms
    timers,     \* pending setTimeout callbacks, in registration order
    ops,        \* the promises fakeIO has returned, in creation order
    combs,      \* the promises of Promise.all / allSettled / race, in creation order
    pc,         \* where the single running (or suspended) async function stands
    awaiting,   \* the promise it is suspended on
    started,    \* runner: the scenarios called so far, in order
    returned,   \* runner: what each scenario gave back to the runner, in order
    rt,         \* retry(): its arguments, locals and bookkeeping
    loc,        \* the locals of the scenario that is running
    log,        \* console output (the lines the scenarios print)
    unhandled   \* rejections no handler ever took

vars == <<entry, now, timers, ops, combs, pc, awaiting, started, returned,
          rt, loc, log, unhandled>>

----------------------------------------------------------------------------
(* Bounds of the harness entries (calls of one function with arguments     *)
(* drawn from small sets).                                                 *)

\* retry() is called with retries in 0..MaxRetries
MaxRetries == 3

\* delayMs arguments of retry()
DelayChoices == {0, 150}

\* failRate arguments of fakeIO (percent)
RateChoices == {0, 65, 100}

\* delays of the operations handed to withTimeout and Promise.race
MsChoices == {120, 250, 400}

\* the ms argument of withTimeout
TimeoutChoices == {250}

\* the scenarios that are also run alone with failing operations
LoneScenarios ==
    {"demoPromiseChain", "demoAsyncAwait", "demoParallelAll", "demoPipeline"}

\* the values Math.random() is drawn from, in percent: around every failRate
\* of the program, and both ends of [0, 100)
RandomValues == {0, 19, 20, 64, 65, 69, 70, 99}

----------------------------------------------------------------------------
(* Values *)

Undefined == [kind |-> "undefined"]

Str(s) == [kind |-> "string", text |-> s]

\* new Error(message): the message is kept as the parts of its template
\* literal; `origin` is the object's identity (the promise it was made for), so
\* that two errors with the same message are still two errors
Err(parts, origin) == [kind |-> "error", message |-> parts, origin |-> origin]

\* `[${name}] failed (simulated)`
FailedMessage(name) == <<"[", name, "] failed (simulated)">>

\* `timeout after ${ms}ms`
TimeoutMessage(ms) == <<"timeout after ", ToString(ms), "ms">>

\* the object fakeIO resolves with
Result(name, ms, at) ==
    [kind |-> "result", name |-> name, durationMs |-> ms, timestamp |-> at]

Pending == "pending"
Fulfilled == "fulfilled"
Rejected == "rejected"

----------------------------------------------------------------------------
(* fakeIO *)

\* const shouldFail = Math.random() < failRate
ShouldFailFlipped(r, failRate) == r >= failRate
ShouldFail(r, failRate) == r < failRate

\* function fakeIO(name, ms, failRate = 0.0): the rate of a call that passes
\* none.  A scenario run alone has it replaced by the rate of its entry.
FailRateDefault == IF entry.kind = "scenario" THEN entry.failRate ELSE 0

\* the promise fakeIO(name, ms, failRate) returns, before its timer fires
NewOp(id, name, ms, failRate, by) ==
    [id |-> id, name |-> name, ms |-> ms, failRate |-> failRate, state |-> Pending,
     value |-> Undefined, by |-> by, startedAt |-> now, settledAt |-> -1,
     settles |-> 0]

\* what fakeIO does once `await sleep(ms)` is over, Math.random() having
\* returned r: reject with the simulated failure, or resolve with the result
FakeIOSettle(op, r) ==
    IF ShouldFail(r, op.failRate)
    THEN [op EXCEPT !.state = Rejected, !.value = Err(FailedMessage(op.name), <<"op", op.id>>),
                    !.settledAt = now', !.settles = @ + 1]
    ELSE [op EXCEPT !.state = Fulfilled,
                    !.value = Result(op.name, op.ms, now'),
                    !.settledAt = now', !.settles = @ + 1]

\* sleep(ms): setTimeout(resolve, ms); `waiter` is who awaits the sleep
SleepTimerWithoutMs(ms, waiter) ==
    [due |-> now, cb |-> [kind |-> "sleep", waiter |-> waiter]]
SleepTimer(ms, waiter) ==
    [due |-> now + ms, cb |-> [kind |-> "sleep", waiter |-> waiter]]

\* calling fakeIO for each of `calls` (records name, ms, failRate) in order:
\* the promises added to ops, and the timers their sleeps register
LaunchedOps(calls, by) ==
    [k \in 1..Len(calls) |->
        NewOp(Len(ops) + k, calls[k].name, calls[k].ms, calls[k].failRate, by)]

LaunchedTimers(calls) ==
    [k \in 1..Len(calls) |->
        SleepTimer(calls[k].ms, <<"fakeIO", Len(ops) + k>>)]

Call(name, ms, failRate) == [name |-> name, ms |-> ms, failRate |-> failRate]

----------------------------------------------------------------------------
(* Promise.race, Promise.all, Promise.allSettled                           *)
(* An input is <<"op", i>> (ops[i]) or <<"timer", ms>> (the promise of     *)
(* withTimeout that its timer rejects).                                    *)

NewComb(kind, inputs) ==
    [kind |-> kind, inputs |-> inputs, state |-> Pending, value |-> Undefined,
     slots |-> [k \in 1..Len(inputs) |-> Undefined],
     remaining |-> Len(inputs), settledAt |-> -1, late |-> 0]

\* Promise.race: the first input to settle settles the race with its own
\* state and value; a promise settles once, so a later input changes nothing
RaceReactLastWins(c, k, state, value) ==
    [c EXCEPT !.state = state, !.value = value, !.settledAt = now']
RaceReact(c, k, state, value) ==
    IF c.state = Pending
    THEN [c EXCEPT !.state = state, !.value = value, !.settledAt = now']
    ELSE [c EXCEPT !.late = @ + 1]

\* Promise.all: the first rejection rejects it; the last fulfilment fulfils
\* it with the values in input order
AllReactInCompletionOrder(c, k, state, value) ==
    IF c.state # Pending THEN [c EXCEPT !.late = @ + 1]
    ELSE IF state = Rejected
    THEN [c EXCEPT !.state = Rejected, !.value = value, !.settledAt = now']
    ELSE LET slots == [c.slots EXCEPT ![Len(c.inputs) - c.remaining + 1] = value] IN
         IF c.remaining = 1
         THEN [c EXCEPT !.slots = slots, !.remaining = 0, !.state = Fulfilled,
                        !.value = [kind |-> "array", items |-> slots],
                        !.settledAt = now']
         ELSE [c EXCEPT !.slots = slots, !.remaining = @ - 1]
AllReact(c, k, state, value) ==
    IF c.state # Pending THEN [c EXCEPT !.late = @ + 1]
    ELSE IF state = Rejected
    THEN [c EXCEPT !.state = Rejected, !.value = value, !.settledAt = now']
    ELSE LET slots == [c.slots EXCEPT ![k] = value] IN
         IF c.remaining = 1
         THEN [c EXCEPT !.slots = slots, !.remaining = 0, !.state = Fulfilled,
                        !.value = [kind |-> "array", items |-> slots],
                        !.settledAt = now']
         ELSE [c EXCEPT !.slots = slots, !.remaining = @ - 1]

\* one entry of Promise.allSettled's result
SettledEntry(state, value) ==
    IF state = Fulfilled
    THEN [status |-> Fulfilled, value |-> value]
    ELSE [status |-> Rejected, reason |-> value]

\* Promise.allSettled: never rejects; fulfils after the last input settled,
\* entry k describing input k
AllSettledReactInCompletionOrder(c, k, state, value) ==
    LET at == Len(c.inputs) - c.remaining + 1
        slots == [c.slots EXCEPT ![at] = SettledEntry(state, value)] IN
    IF c.remaining = 1
    THEN [c EXCEPT !.slots = slots, !.remaining = 0, !.state = Fulfilled,
                   !.value = [kind |-> "array", items |-> slots],
                   !.settledAt = now']
    ELSE [c EXCEPT !.slots = slots, !.remaining = @ - 1]
AllSettledReact(c, k, state, value) ==
    LET slots == [c.slots EXCEPT ![k] = SettledEntry(state, value)] IN
    IF c.remaining = 1
    THEN [c EXCEPT !.slots = slots, !.remaining = 0, !.state = Fulfilled,
                   !.value = [kind |-> "array", items |-> slots],
                   !.settledAt = now']
    ELSE [c EXCEPT !.slots = slots, !.remaining = @ - 1]

React(c, k, state, value) ==
    CASE c.kind = "race" -> RaceReact(c, k, state, value)
      [] c.kind = "all" -> AllReact(c, k, state, value)
      [] c.kind = "allSettled" -> AllSettledReact(c, k, state, value)

\* the position of input `ref` in c's inputs, 0 when it is none of them
InputIndex(c, ref) ==
    IF \E k \in 1..Len(c.inputs) : c.inputs[k] = ref
    THEN CHOOSE k \in 1..Len(c.inputs) : c.inputs[k] = ref
    ELSE 0

\* every combinator that took `ref` as an input reacts to its settling
Notify(cs, ref, state, value) ==
    [c \in 1..Len(cs) |->
        IF InputIndex(cs[c], ref) # 0
        THEN React(cs[c], InputIndex(cs[c], ref), state, value)
        ELSE cs[c]]


----------------------------------------------------------------------------
(* The event loop *)

NoPromise == <<"none", 0>>
OnSleep == <<"sleep", 0>>

Settled(ref) ==
    CASE ref[1] = "none" -> TRUE
      [] ref[1] = "sleep" -> FALSE
      [] ref[1] = "op" -> ops[ref[2]].state # Pending
      [] ref[1] = "comb" -> combs[ref[2]].state # Pending

StateOf(ref) ==
    IF ref[1] = "op" THEN ops[ref[2]].state ELSE combs[ref[2]].state

ValueOf(ref) ==
    IF ref[1] = "op" THEN ops[ref[2]].value ELSE combs[ref[2]].value

\* an unhandled rejection ends the process
Crashed == unhandled # {}

\* the suspended async function can be resumed: a pending microtask
RunnerReady == pc \notin {"done", "crashed"} /\ Settled(awaiting)

\* a rejection of `ref` has a handler: it is awaited, or an input of a
\* combinator
Handled(ref) ==
    \/ awaiting = ref
    \/ \E c \in 1..Len(combs) : InputIndex(combs[c], ref) # 0

\* the timer that fires next: the earliest due; among timers due together,
\* the one registered first
NextTimerLastRegistered ==
    CHOOSE i \in 1..Len(timers) :
        \A j \in 1..Len(timers) :
            \/ timers[i].due < timers[j].due
            \/ (timers[i].due = timers[j].due /\ i >= j)
NextTimer ==
    CHOOSE i \in 1..Len(timers) :
        \A j \in 1..Len(timers) :
            \/ timers[i].due < timers[j].due
            \/ (timers[i].due = timers[j].due /\ i <= j)

Remove(seq, i) == SubSeq(seq, 1, i - 1) \o SubSeq(seq, i + 1, Len(seq))

\* a timer callback runs only when nothing else is running or ready to run
TimerMayFire == timers # <<>> /\ ~RunnerReady /\ ~Crashed

\* the timer of a fakeIO's sleep fires: fakeIO draws Math.random() and settles
\* its promise; the combinators it is an input of react
FireFakeIO ==
    /\ TimerMayFire
    /\ LET t == timers[NextTimer] IN
       /\ t.cb.kind = "sleep"
       /\ t.cb.waiter[1] = "fakeIO"
       /\ now' = t.due
       /\ timers' = Remove(timers, NextTimer)
       /\ \E r \in RandomValues :
            LET i == t.cb.waiter[2]
                op == FakeIOSettle(ops[i], r) IN
            /\ ops' = [ops EXCEPT ![i] = op]
            /\ combs' = Notify(combs, <<"op", i>>, op.state, op.value)
            /\ unhandled' =
                 IF op.state = Rejected /\ ~Handled(<<"op", i>>)
                 THEN unhandled \cup {op.value}
                 ELSE unhandled
    /\ UNCHANGED <<entry, pc, awaiting, started, returned, rt, loc, log>>

\* the timer of retry's backoff sleep fires: retry can go on
FireBackoff ==
    /\ TimerMayFire
    /\ LET t == timers[NextTimer] IN
       /\ t.cb.kind = "sleep"
       /\ t.cb.waiter[1] = "retry"
       /\ now' = t.due
       /\ timers' = Remove(timers, NextTimer)
       /\ awaiting' = NoPromise
    /\ UNCHANGED <<entry, ops, combs, pc, started, returned, rt, loc, log,
                   unhandled>>

\* the timer of withTimeout fires: reject(new Error(`timeout after ${ms}ms`)),
\* to which the race of withTimeout reacts
FireTimeout ==
    /\ TimerMayFire
    /\ LET t == timers[NextTimer] IN
       /\ t.cb.kind = "timeout"
       /\ now' = t.due
       /\ timers' = Remove(timers, NextTimer)
       /\ combs' = Notify(combs, <<"timer", t.cb.race>>, Rejected,
                          Err(TimeoutMessage(t.cb.ms), <<"timer", t.cb.race>>))
    /\ UNCHANGED <<entry, ops, pc, awaiting, started, returned, rt, loc, log,
                   unhandled>>

----------------------------------------------------------------------------
(* The runner's bookkeeping *)

Line(tag, v) == [tag |-> tag, v |-> v]

ScenariosRaceAfterTimeout ==
    IF entry.kind = "scenario" THEN <<entry.name>>
    ELSE IF entry.file = "index.js"
    THEN <<"demoPromiseChain", "demoAsyncAwait", "demoParallelAll",
           "demoAllSettled", "demoTimeout", "demoRace", "demoRetry",
           "demoPipeline">>
    ELSE <<"demoPromiseChain", "demoAsyncAwait", "demoParallelAll",
           "demoAllSettled", "demoTimeout", "demoRace">>
Scenarios ==
    IF entry.kind = "scenario" THEN <<entry.name>>
    ELSE IF entry.file = "index.js"
    THEN <<"demoPromiseChain", "demoAsyncAwait", "demoParallelAll",
           "demoAllSettled", "demoRace", "demoTimeout", "demoRetry",
           "demoPipeline">>
    ELSE <<"demoPromiseChain", "demoAsyncAwait", "demoParallelAll",
           "demoAllSettled", "demoRace", "demoTimeout">>

IsMain == entry.kind = "main"

\* a scenario is run by main(), or alone by a caller that awaits it
RunsScenarios == entry.kind \in {"main", "scenario"}

\* main() is about to call scenario `name`
MainCalls(name) ==
    /\ RunsScenarios
    /\ pc = "main"
    /\ ~Crashed
    /\ Len(started) < Len(Scenarios)
    /\ Scenarios[Len(started) + 1] = name
    /\ started' = Append(started, name)

\* what main() prints once the scenario it awaited has returned
MainLog ==
    IF ~IsMain THEN <<>>
    ELSE IF returned = <<>> THEN <<Line("POC: Promises & async/await - Node.js", Undefined)>>
    ELSE LET last == returned[Len(returned)] IN
         CASE last.name = "demoPromiseChain" -> <<Line("chain return:", last.value)>>
           [] last.name = "demoAsyncAwait" -> <<Line("async/await return:", last.value)>>
           [] OTHER -> <<>>

\* a scenario returns `value` to main()
ReturnsToMain(name, value) ==
    /\ returned' = Append(returned, [name |-> name, kind |-> "return",
                                     value |-> value, at |-> now])
    /\ pc' = "main"
    /\ awaiting' = NoPromise
    /\ unhandled' = unhandled

\* a scenario throws `error` into main(), which has no handler: the promise
\* of main() rejects and nothing handles it.  A caller that runs the scenario
\* alone takes the rejection as the scenario's outcome.
ThrowsIntoMain(name, error) ==
    /\ returned' = Append(returned, [name |-> name, kind |-> "throw",
                                     value |-> error, at |-> now])
    /\ pc' = IF IsMain THEN "crashed" ELSE "done"
    /\ awaiting' = NoPromise
    /\ unhandled' = IF IsMain THEN unhandled \cup {error} ELSE unhandled

\* the function is resumed at `at`, the promise it awaited having settled
ResumedAt(at) == pc = at /\ ~Crashed /\ Settled(awaiting)


----------------------------------------------------------------------------
(* retry(fn, {retries, delayMs}) *)

RtIdle ==
    [active |-> FALSE, caller |-> "none", retries |-> 0, delayMs |-> 0,
     fn |-> Call("none", 0, 0), attempt |-> 0, lastError |-> Undefined,
     attemptOps |-> <<>>, waits |-> <<>>, outcome |-> [kind |-> "none"],
     calledAt |-> 0]

\* const waitTime = delayMs * attempt
WaitTimeDoubling(delayMs, attempt) == delayMs * (2 ^ (attempt - 1))
WaitTime(delayMs, attempt) == delayMs * attempt

\* lastError = error
RecordedErrorKeepsFirst(lastError, error) ==
    IF lastError = Undefined THEN error ELSE lastError
RecordedError(lastError, error) == error

\* for (...; attempt <= retries; ...)
LoopGoesOnOneMore(attempt, retries) == attempt <= retries + 1
LoopGoesOn(attempt, retries) == attempt <= retries

\* the head of the for loop with attempt = a, r being retry's record: either
\* fn(a) is called and awaited, or the loop is over and lastError is thrown
RetryLoop(r, a) ==
    IF LoopGoesOn(a, r.retries)
    THEN /\ ops' = ops \o LaunchedOps(<<r.fn>>, r.caller)
         /\ timers' = timers \o LaunchedTimers(<<r.fn>>)
         /\ rt' = [r EXCEPT !.attempt = a,
                            !.attemptOps = Append(@, Len(ops) + 1)]
         /\ awaiting' = <<"op", Len(ops) + 1>>
         /\ pc' = "retry_await"
    ELSE /\ rt' = [r EXCEPT !.attempt = a,
                            !.outcome = [kind |-> "throw",
                                         value |-> r.lastError, at |-> now]]
         /\ awaiting' = NoPromise
         /\ pc' = "retry_return"
         /\ UNCHANGED <<ops, timers>>

\* a call of retry: lastError is undefined, the loop starts at attempt 1
RetryCalled(caller, fn, retries, delayMs) ==
    RetryLoop([RtIdle EXCEPT !.active = TRUE, !.caller = caller, !.fn = fn,
                             !.retries = retries, !.delayMs = delayMs,
                             !.calledAt = now], 1)

\* return await fn(attempt), fn's promise having fulfilled
RetrySucceededGoesOn ==
    /\ rt' = [rt EXCEPT !.waits = Append(@, WaitTime(rt.delayMs, rt.attempt))]
    /\ timers' = Append(timers, SleepTimer(WaitTime(rt.delayMs, rt.attempt),
                                           <<"retry", 0>>))
    /\ awaiting' = OnSleep
    /\ pc' = "retry_backoff"
    /\ log' = log
RetrySucceeded ==
    /\ rt' = [rt EXCEPT !.outcome = [kind |-> "return",
                                     value |-> ValueOf(awaiting),
                                     at |-> now]]
    /\ pc' = "retry_return"
    /\ awaiting' = NoPromise
    /\ UNCHANGED <<timers, log>>

\* `await fn(attempt)` is over: return its value, or catch its error, record
\* it, print it and sleep for the backoff
RetryAttemptSettled ==
    /\ ResumedAt("retry_await")
    /\ IF StateOf(awaiting) = Fulfilled
       THEN RetrySucceeded
       ELSE LET waitTime == WaitTime(rt.delayMs, rt.attempt) IN
            /\ rt' = [rt EXCEPT !.lastError =
                                    RecordedError(@, ValueOf(awaiting)),
                                !.waits = Append(@, waitTime)]
            /\ log' = Append(log, Line("attempt failed | waiting",
                                       [kind |-> "attempt", attempt |-> rt.attempt,
                                        error |-> ValueOf(awaiting),
                                        waitTime |-> waitTime]))
            /\ timers' = Append(timers, SleepTimer(waitTime, <<"retry", 0>>))
            /\ awaiting' = OnSleep
            /\ pc' = "retry_backoff"
    /\ UNCHANGED <<entry, now, ops, combs, started, returned, loc, unhandled>>

\* `await sleep(waitTime)` is over: attempt++ and the loop head
RetryBackoffOver ==
    /\ ResumedAt("retry_backoff")
    /\ RetryLoop(rt, rt.attempt + 1)
    /\ UNCHANGED <<entry, now, combs, started, returned, loc, log, unhandled>>

----------------------------------------------------------------------------
(* withTimeout(promise, ms) *)

\* Promise.race([promise, new Promise((_, reject) => setTimeout(...))]), as
\* combinator number c: the race and the timer it registers
WithTimeoutRace(promise, c) == NewComb("race", <<promise, <<"timer", c>>>>)

WithTimeoutTimerWithoutMs(ms, c) ==
    [due |-> now, cb |-> [kind |-> "timeout", race |-> c, ms |-> ms]]
WithTimeoutTimer(ms, c) ==
    [due |-> now + ms, cb |-> [kind |-> "timeout", race |-> c, ms |-> ms]]

----------------------------------------------------------------------------
(* Harness entries: one call of retry, withTimeout or Promise.race *)

\* retry(() => fakeIO("unstable", 150, failRate), {retries, delayMs})
CallRetry ==
    /\ entry.kind = "retry"
    /\ pc = "start"
    /\ RetryCalled("caller", Call("unstable", entry.ms, entry.failRate),
                   entry.retries, entry.delayMs)
    /\ UNCHANGED <<entry, now, combs, started, returned, loc, log, unhandled>>

\* withTimeout(fakeIO("operation", opMs, failRate), ms): the operation is
\* started first, as an argument of the call
CallWithTimeout ==
    /\ entry.kind = "withTimeout"
    /\ pc = "start"
    /\ LET calls == <<Call("operation", entry.opMs, entry.failRate)>>
           c == Len(combs) + 1 IN
       /\ ops' = ops \o LaunchedOps(calls, "caller")
       /\ combs' = Append(combs, WithTimeoutRace(<<"op", Len(ops) + 1>>, c))
       /\ timers' = (timers \o LaunchedTimers(calls))
                        \o <<WithTimeoutTimer(entry.ms, c)>>
       /\ awaiting' = <<"comb", c>>
    /\ pc' = "caller_await"
    /\ UNCHANGED <<entry, now, started, returned, rt, loc, log, unhandled>>

\* Promise.race([fakeIO("first", ms1, rate1), fakeIO("second", ms2, rate2)])
CallRace ==
    /\ entry.kind = "race"
    /\ pc = "start"
    /\ LET calls == <<Call("first", entry.ms1, entry.rate1),
                      Call("second", entry.ms2, entry.rate2)>> IN
       /\ ops' = ops \o LaunchedOps(calls, "caller")
       /\ timers' = timers \o LaunchedTimers(calls)
       /\ combs' = Append(combs, NewComb("race", <<<<"op", Len(ops) + 1>>,
                                                   <<"op", Len(ops) + 2>>>>))
       /\ awaiting' = <<"comb", Len(combs) + 1>>
    /\ pc' = "caller_await"
    /\ UNCHANGED <<entry, now, started, returned, rt, loc, log, unhandled>>

\* the caller gets the outcome of the promise it awaited
CallerResumes ==
    /\ ResumedAt("caller_await")
    /\ returned' = Append(returned,
            [name |-> entry.kind,
             kind |-> IF StateOf(awaiting) = Fulfilled THEN "return" ELSE "throw",
             value |-> ValueOf(awaiting), at |-> now])
    /\ pc' = "done"
    /\ awaiting' = NoPromise
    /\ UNCHANGED <<entry, now, timers, ops, combs, started, rt, loc, log,
                   unhandled>>

\* the caller gets the outcome of retry
CallerResumesFromRetry ==
    /\ entry.kind = "retry"
    /\ ResumedAt("retry_return")
    /\ returned' = Append(returned,
            [name |-> entry.kind, kind |-> rt.outcome.kind,
             value |-> rt.outcome.value, at |-> now])
    /\ pc' = "done"
    /\ UNCHANGED <<entry, now, timers, ops, combs, awaiting, started, rt, loc,
                   log, unhandled>>


----------------------------------------------------------------------------
(* The scenarios.  Each Start action is main()'s synchronous step: what it *)
(* prints about the scenario that returned, the call of the next scenario, *)
(* and that scenario up to its first suspension.                           *)

NoLocals == [state |-> Pending, value |-> Undefined, finallyRuns |-> 0]

\* the calls of fakeIO a scenario makes, in order
LaunchAs(calls, by) ==
    /\ ops' = ops \o LaunchedOps(calls, by)
    /\ timers' = timers \o LaunchedTimers(calls)

(* 1) demoPromiseChain: fakeIO.then(f1).then(f2).catch(h).finally(g) *)

DemoPromiseChainStart ==
    /\ MainCalls("demoPromiseChain")
    /\ log' = log \o MainLog \o <<Line("=== 1) Promise chain (then / catch / finally) ===", Undefined)>>
    /\ LaunchAs(<<Call("step-1", 300, FailRateDefault)>>, "demoPromiseChain")
    /\ awaiting' = <<"op", Len(ops) + 1>>
    /\ loc' = NoLocals
    /\ pc' = "chain_then1"
    /\ UNCHANGED <<entry, now, combs, returned, rt, unhandled>>

\* .then(f): f runs when the promise before it has fulfilled
ThenRunsAlso(state) == state \in {Fulfilled, Rejected}
ThenRuns(state) == state = Fulfilled

\* .catch(h): a rejected link becomes the fallback, a fulfilled one passes
CaughtPassesOn(link) == link
Caught(link) ==
    IF link.state = Rejected
    THEN [link EXCEPT !.state = Fulfilled,
                      !.value = Str("chain recovered with fallback")]
    ELSE link

\* the first then: on success print and return fakeIO("step-2", 250), whose
\* outcome the next link takes; a rejection passes through
ChainThen1 ==
    /\ ResumedAt("chain_then1")
    /\ IF ThenRuns(StateOf(awaiting))
       THEN /\ log' = Append(log, Line("success:", ValueOf(awaiting)))
            /\ LaunchAs(<<Call("step-2", 250, FailRateDefault)>>, "demoPromiseChain")
            /\ awaiting' = <<"op", Len(ops) + 1>>
            /\ loc' = loc
       ELSE /\ loc' = [loc EXCEPT !.state = Rejected,
                                  !.value = ValueOf(awaiting)]
            /\ awaiting' = NoPromise
            /\ UNCHANGED <<ops, timers, log>>
    /\ pc' = "chain_then2"
    /\ UNCHANGED <<entry, now, combs, started, returned, rt, unhandled>>

\* the second then
ChainThen2 ==
    /\ ResumedAt("chain_then2")
    /\ IF awaiting[1] = "op" /\ ThenRuns(StateOf(awaiting))
       THEN /\ log' = Append(log, Line("success:", ValueOf(awaiting)))
            /\ loc' = [loc EXCEPT !.state = Fulfilled,
                                  !.value = Str("final result from promise chain")]
       ELSE /\ loc' = IF awaiting[1] = "op"
                      THEN [loc EXCEPT !.state = Rejected,
                                       !.value = ValueOf(awaiting)]
                      ELSE loc
            /\ log' = log
    /\ awaiting' = NoPromise
    /\ pc' = "chain_catch"
    /\ UNCHANGED <<entry, now, timers, ops, combs, started, returned, rt,
                   unhandled>>

\* the catch: a rejection is printed and replaced by the fallback
ChainCatch ==
    /\ ResumedAt("chain_catch")
    /\ log' = IF loc.state = Rejected
              THEN Append(log, Line("error in chain:", loc.value))
              ELSE log
    /\ loc' = Caught(loc)
    /\ pc' = "chain_finally"
    /\ UNCHANGED <<entry, now, timers, ops, combs, awaiting, started,
                   returned, rt, unhandled>>

\* the finally, after which the chain's outcome goes to main()
ChainFinally ==
    /\ ResumedAt("chain_finally")
    /\ log' = Append(log, Line("finally: always executed", Undefined))
    /\ loc' = [loc EXCEPT !.finallyRuns = @ + 1]
    /\ IF loc.state = Fulfilled
       THEN ReturnsToMain("demoPromiseChain", loc.value)
       ELSE ThrowsIntoMain("demoPromiseChain", loc.value)
    /\ UNCHANGED <<entry, now, timers, ops, combs, started, rt>>

(* 2) demoAsyncAwait *)

DemoAsyncAwaitStart ==
    /\ MainCalls("demoAsyncAwait")
    /\ log' = log \o MainLog \o <<Line("=== 2) async / await (try / catch) ===", Undefined)>>
    /\ LaunchAs(<<Call("await-1", 200, FailRateDefault)>>, "demoAsyncAwait")
    /\ awaiting' = <<"op", Len(ops) + 1>>
    /\ loc' = NoLocals
    /\ pc' = "await_1"
    /\ UNCHANGED <<entry, now, combs, returned, rt, unhandled>>

AsyncAwait1 ==
    /\ ResumedAt("await_1")
    /\ IF StateOf(awaiting) = Fulfilled
       THEN /\ log' = Append(log, Line("success:", ValueOf(awaiting)))
            /\ LaunchAs(<<Call("await-2", 200, FailRateDefault)>>, "demoAsyncAwait")
            /\ awaiting' = <<"op", Len(ops) + 1>>
            /\ pc' = "await_2"
            /\ UNCHANGED <<returned, unhandled>>
       ELSE /\ log' = Append(log, Line("error in async/await:", ValueOf(awaiting)))
            /\ ReturnsToMain("demoAsyncAwait", Str("async/await fallback result"))
            /\ UNCHANGED <<ops, timers>>
    /\ UNCHANGED <<entry, now, combs, started, rt, loc>>

AsyncAwait2 ==
    /\ ResumedAt("await_2")
    /\ IF StateOf(awaiting) = Fulfilled
       THEN /\ log' = Append(log, Line("success:", ValueOf(awaiting)))
            /\ ReturnsToMain("demoAsyncAwait", Str("final result from async/await"))
       ELSE /\ log' = Append(log, Line("error in async/await:", ValueOf(awaiting)))
            /\ ReturnsToMain("demoAsyncAwait", Str("async/await fallback result"))
    /\ UNCHANGED <<entry, now, timers, ops, combs, started, rt, loc>>

(* 3) demoParallelAll *)

Names(items) == [k \in 1..Len(items) |-> items[k].name]

DemoParallelAllStart ==
    /\ MainCalls("demoParallelAll")
    /\ log' = log \o MainLog \o <<Line("=== 3) Parallel execution with Promise.all ===", Undefined)>>
    /\ LaunchAs(<<Call("A", 400, FailRateDefault), Call("B", 300, FailRateDefault), Call("C", 200, FailRateDefault)>>,
                "demoParallelAll")
    /\ combs' = Append(combs, NewComb("all", [k \in 1..3 |-> <<"op", Len(ops) + k>>]))
    /\ awaiting' = <<"comb", Len(combs) + 1>>
    /\ loc' = [NoLocals EXCEPT !.value = [kind |-> "number", n |-> now]]
    /\ pc' = "all_await"
    /\ UNCHANGED <<entry, now, returned, rt, unhandled>>

\* no try/catch: a rejection of Promise.all leaves the scenario
ParallelAllResumes ==
    /\ ResumedAt("all_await")
    /\ IF StateOf(awaiting) = Fulfilled
       THEN /\ log' = log \o <<Line("results:", [kind |-> "array",
                                      items |-> Names(ValueOf(awaiting).items)]),
                               Line("elapsed(ms):", [kind |-> "number",
                                      n |-> now - loc.value.n])>>
            /\ ReturnsToMain("demoParallelAll", Undefined)
       ELSE /\ log' = log
            /\ ThrowsIntoMain("demoParallelAll", ValueOf(awaiting))
    /\ UNCHANGED <<entry, now, timers, ops, combs, started, rt, loc>>

(* 4) demoAllSettled *)

DemoAllSettledStart ==
    /\ MainCalls("demoAllSettled")
    /\ log' = log \o MainLog \o <<Line("=== 4) Promise.allSettled (success + failure) ===", Undefined)>>
    /\ LaunchAs(<<Call("S1", 200, 0), Call("S2", 250, 70), Call("S3", 150, 20)>>,
                "demoAllSettled")
    /\ combs' = Append(combs, NewComb("allSettled",
                                      [k \in 1..3 |-> <<"op", Len(ops) + k>>]))
    /\ awaiting' = <<"comb", Len(combs) + 1>>
    /\ loc' = NoLocals
    /\ pc' = "allSettled_await"
    /\ UNCHANGED <<entry, now, returned, rt, unhandled>>

\* the line printed for one settled result
SettledLine(result) ==
    IF result.status = "fulfilled"
    THEN Line("fulfilled:", Str(result.value.name))
    ELSE Line("rejected:", result.reason)

AllSettledResumes ==
    /\ ResumedAt("allSettled_await")
    /\ IF StateOf(awaiting) = Fulfilled
       THEN /\ log' = log \o [k \in 1..Len(ValueOf(awaiting).items) |->
                                 SettledLine(ValueOf(awaiting).items[k])]
            /\ loc' = [loc EXCEPT !.state = Fulfilled, !.value = ValueOf(awaiting)]
            /\ ReturnsToMain("demoAllSettled", Undefined)
       ELSE /\ UNCHANGED <<log, loc>>
            /\ ThrowsIntoMain("demoAllSettled", ValueOf(awaiting))
    /\ UNCHANGED <<entry, now, timers, ops, combs, started, rt>>

(* 5) demoRace *)

DemoRaceStart ==
    /\ MainCalls("demoRace")
    /\ log' = log \o MainLog \o <<Line("=== 5) Promise.race (first to finish) ===", Undefined)>>
    /\ LaunchAs(<<Call("slow", 400, FailRateDefault), Call("fast", 120, FailRateDefault)>>, "demoRace")
    /\ combs' = Append(combs, NewComb("race", [k \in 1..2 |-> <<"op", Len(ops) + k>>]))
    /\ awaiting' = <<"comb", Len(combs) + 1>>
    /\ loc' = NoLocals
    /\ pc' = "race_await"
    /\ UNCHANGED <<entry, now, returned, rt, unhandled>>

\* no try/catch: a rejected race leaves the scenario
RaceResumes ==
    /\ ResumedAt("race_await")
    /\ IF StateOf(awaiting) = Fulfilled
       THEN /\ log' = Append(log, Line("winner:", Str(ValueOf(awaiting).name)))
            /\ loc' = [loc EXCEPT !.state = Fulfilled, !.value = ValueOf(awaiting)]
            /\ ReturnsToMain("demoRace", Undefined)
       ELSE /\ UNCHANGED <<log, loc>>
            /\ ThrowsIntoMain("demoRace", ValueOf(awaiting))
    /\ UNCHANGED <<entry, now, timers, ops, combs, started, rt>>

(* 6) demoTimeout *)

DemoTimeoutStart ==
    /\ MainCalls("demoTimeout")
    /\ log' = log \o MainLog \o <<Line("=== 6) Timeout (Promise.race + timer) ===", Undefined)>>
    /\ LET calls == <<Call("operation", 500, FailRateDefault)>>
           c == Len(combs) + 1 IN
       /\ ops' = ops \o LaunchedOps(calls, "demoTimeout")
       /\ combs' = Append(combs, WithTimeoutRace(<<"op", Len(ops) + 1>>, c))
       /\ timers' = (timers \o LaunchedTimers(calls))
                        \o <<WithTimeoutTimer(250, c)>>
       /\ awaiting' = <<"comb", c>>
    /\ loc' = NoLocals
    /\ pc' = "timeout_await"
    /\ UNCHANGED <<entry, now, returned, rt, unhandled>>

TimeoutResumes ==
    /\ ResumedAt("timeout_await")
    /\ IF StateOf(awaiting) = Fulfilled
       THEN log' = Append(log, Line("success:", ValueOf(awaiting)))
       ELSE log' = Append(log, Line("timeout/error:", ValueOf(awaiting)))
    /\ loc' = [loc EXCEPT !.state = StateOf(awaiting), !.value = ValueOf(awaiting)]
    /\ ReturnsToMain("demoTimeout", Undefined)
    /\ UNCHANGED <<entry, now, timers, ops, combs, started, rt>>

(* 7) demoRetry *)

DemoRetryStart ==
    /\ MainCalls("demoRetry")
    /\ log' = log \o MainLog \o <<Line("=== 7) Retry with backoff ===", Undefined)>>
    /\ RetryCalled("demoRetry", Call("unstable", 150, 65), 4, 150)
    /\ loc' = NoLocals
    /\ UNCHANGED <<entry, now, combs, returned, unhandled>>

RetryResumes ==
    /\ IsMain
    /\ ResumedAt("retry_return")
    /\ IF rt.outcome.kind = "return"
       THEN log' = Append(log, Line("success after retry:", rt.outcome.value))
       ELSE log' = Append(log, Line("failed after retries:", rt.outcome.value))
    /\ ReturnsToMain("demoRetry", Undefined)
    /\ UNCHANGED <<entry, now, timers, ops, combs, started, rt, loc>>

(* 8) demoPipeline *)

DemoPipelineStart ==
    /\ MainCalls("demoPipeline")
    /\ log' = log \o MainLog \o <<Line("=== 8) Pipeline: fetch -> process -> save ===", Undefined)>>
    /\ LaunchAs(<<Call("fetch-data", 200, FailRateDefault)>>, "demoPipeline")
    /\ awaiting' = <<"op", Len(ops) + 1>>
    /\ loc' = [NoLocals EXCEPT !.value = [kind |-> "pipeline"]]
    /\ pc' = "pipeline_fetch"
    /\ UNCHANGED <<entry, now, combs, returned, rt, unhandled>>

\* the calls of the process stage, in the order of the array given to
\* Promise.all
ProcessCallsPart2First ==
    <<Call("process-part-2", 300, FailRateDefault),
      Call("process-part-1", 250, FailRateDefault)>>
ProcessCalls ==
    <<Call("process-part-1", 250, FailRateDefault),
      Call("process-part-2", 300, FailRateDefault)>>

PipelineFetched ==
    /\ ResumedAt("pipeline_fetch")
    /\ IF StateOf(awaiting) = Fulfilled
       THEN /\ log' = Append(log, Line("fetched:", Str(ValueOf(awaiting).name)))
            /\ LaunchAs(ProcessCalls, "demoPipeline")
            /\ combs' = Append(combs, NewComb("all",
                                   [k \in 1..2 |-> <<"op", Len(ops) + k>>]))
            /\ awaiting' = <<"comb", Len(combs) + 1>>
            /\ loc' = [loc EXCEPT !.value = [kind |-> "pipeline",
                                             fetched |-> ValueOf(awaiting)]]
            /\ pc' = "pipeline_process"
            /\ UNCHANGED <<returned, unhandled>>
       ELSE /\ ThrowsIntoMain("demoPipeline", ValueOf(awaiting))
            /\ UNCHANGED <<log, ops, timers, combs, loc>>
    /\ UNCHANGED <<entry, now, started, rt>>

PipelineProcessed ==
    /\ ResumedAt("pipeline_process")
    /\ IF StateOf(awaiting) = Fulfilled
       THEN /\ log' = Append(log, Line("processed:", [kind |-> "array",
                                     items |-> Names(ValueOf(awaiting).items)]))
            /\ LaunchAs(<<Call("save", 150, FailRateDefault)>>, "demoPipeline")
            /\ awaiting' = <<"op", Len(ops) + 1>>
            /\ loc' = [loc EXCEPT !.value = [kind |-> "pipeline",
                                             fetched |-> loc.value.fetched,
                                             processed |-> ValueOf(awaiting).items]]
            /\ pc' = "pipeline_save"
            /\ UNCHANGED <<returned, unhandled>>
       ELSE /\ ThrowsIntoMain("demoPipeline", ValueOf(awaiting))
            /\ UNCHANGED <<log, ops, timers, loc>>
    /\ UNCHANGED <<entry, now, combs, started, rt>>

PipelineSaved ==
    /\ ResumedAt("pipeline_save")
    /\ IF StateOf(awaiting) = Fulfilled
       THEN /\ log' = Append(log, Line("saved:", Str(ValueOf(awaiting).name)))
            /\ ReturnsToMain("demoPipeline",
                             [kind |-> "pipeline",
                              fetched |-> loc.value.fetched,
                              processed |-> loc.value.processed,
                              saved |-> ValueOf(awaiting)])
       ELSE /\ log' = log
            /\ ThrowsIntoMain("demoPipeline", ValueOf(awaiting))
    /\ UNCHANGED <<entry, now, timers, ops, combs, started, rt, loc>>

\* main() after its last scenario: index.js prints the pipeline's result;
\* both print Done
MainDone ==
    /\ RunsScenarios
    /\ pc = "main"
    /\ ~Crashed
    /\ Len(started) = Len(Scenarios)
    /\ log' = log \o MainLog \o
              (IF IsMain /\ entry.file = "index.js"
               THEN LET pipeline == returned[Len(returned)].value IN
                    <<Line("final pipeline result:",
                           [fetched |-> pipeline.fetched.name,
                            processed |-> Names(pipeline.processed),
                            saved |-> pipeline.saved.name])>>
               ELSE <<>>)
              \o (IF IsMain THEN <<Line("Done", Undefined)>> ELSE <<>>)
    /\ pc' = "done"
    /\ UNCHANGED <<entry, now, timers, ops, combs, awaiting, started, returned,
                   rt, loc, unhandled>>

----------------------------------------------------------------------------
(* The specification *)

\* what is run: main() of either file; one scenario alone, its fakeIO calls
\* that pass no failRate failing at a rate drawn from RateChoices, which
\* exercises the failure paths main() never takes; or one call of retry,
\* withTimeout or Promise.race
Entries ==
    [kind : {"main"}, file : {"index.js", "part_000"}]
    \cup [kind : {"scenario"}, name : LoneScenarios, failRate : RateChoices]
    \cup [kind : {"retry"}, retries : (-1)..MaxRetries, delayMs : DelayChoices,
          ms : {150}, failRate : RateChoices]
    \cup [kind : {"withTimeout"}, opMs : MsChoices, failRate : RateChoices,
          ms : TimeoutChoices]
    \cup [kind : {"race"}, ms1 : MsChoices, ms2 : MsChoices,
          rate1 : RateChoices, rate2 : RateChoices]

Init ==
    /\ entry \in Entries
    /\ now = 0
    /\ timers = <<>>
    /\ ops = <<>>
    /\ combs = <<>>
    /\ pc = IF RunsScenarios THEN "main" ELSE "start"
    /\ awaiting = NoPromise
    /\ started = <<>>
    /\ returned = <<>>
    /\ rt = RtIdle
    /\ loc = NoLocals
    /\ log = <<>>
    /\ unhandled = {}

Next ==
    \/ FireFakeIO \/ FireBackoff \/ FireTimeout
    \/ CallRetry \/ CallWithTimeout \/ CallRace
    \/ CallerResumes \/ CallerResumesFromRetry
    \/ RetryAttemptSettled \/ RetryBackoffOver
    \/ DemoPromiseChainStart \/ ChainThen1 \/ ChainThen2 \/ ChainCatch
    \/ ChainFinally
    \/ DemoAsyncAwaitStart \/ AsyncAwait1 \/ AsyncAwait2
    \/ DemoParallelAllStart \/ ParallelAllResumes
    \/ DemoAllSettledStart \/ AllSettledResumes
    \/ DemoRaceStart \/ RaceResumes
    \/ DemoTimeoutStart \/ TimeoutResumes
    \/ DemoRetryStart \/ RetryResumes
    \/ DemoPipelineStart \/ PipelineFetched \/ PipelineProcessed
    \/ PipelineSaved
    \/ MainDone

Spec == Init /\ [][Next]_vars

\* the event loop runs whatever can run: a ready microtask, else the next timer
FairSpec == Spec /\ WF_vars(Next)


----------------------------------------------------------------------------
(* Properties *)

RECURSIVE SumSeq(_)
SumSeq(q) == IF q = <<>> THEN 0 ELSE Head(q) + SumSeq(Tail(q))

\* 1 + 2 + ... + n
RECURSIVE SumTo(_)
SumTo(n) == IF n <= 0 THEN 0 ELSE n + SumTo(n - 1)

\* the promise fn returned for attempt k of the current retry
AttemptOp(k) == ops[rt.attemptOps[k]]

\* retry has rejected after every one of its attempts failed
RetryExhausted ==
    /\ rt.active
    /\ rt.retries >= 1
    /\ rt.outcome.kind = "throw"
    /\ \A k \in 1..Len(rt.attemptOps) : AttemptOp(k).state = Rejected

\* C1: when every attempt fails, the backoff waits before retry rejects sum to
\* delayMs * (1 + 2 + ... + (retries - 1)): none follows the last failed
\* attempt, and with retries = 1 the total is zero.
C1_NoWaitAfterFinalFailure ==
    RetryExhausted =>
        /\ SumSeq(rt.waits) = rt.delayMs * SumTo(rt.retries - 1)
        /\ rt.outcome.at - rt.calledAt =
               rt.retries * rt.fn.ms + rt.delayMs * SumTo(rt.retries - 1)

\* C2: retry calls fn at most `retries` times, and when all attempts failed it
\* rejects with the very error of attempt number `retries`.
C2_AtMostRetriesThenLastError ==
    rt.active =>
        /\ Len(rt.attemptOps) <= (IF rt.retries < 0 THEN 0 ELSE rt.retries)
        /\ (rt.retries >= 1 /\ rt.outcome.kind = "throw") =>
              /\ Len(rt.attemptOps) = rt.retries
              /\ AttemptOp(rt.retries).state = Rejected
              /\ rt.outcome.value = AttemptOp(rt.retries).value
              /\ rt.outcome.value.kind = "error"

C2_Witness ==
    /\ RetryExhausted
    /\ rt.retries >= 2
    /\ pc = "done"

\* C3: when attempt k is the first to succeed, fn has been called exactly k
\* times, retry returns the result of attempt k at once, and neither a backoff
\* wait nor another attempt follows: the waits are those after the k - 1
\* failures, none for k = 1.
C3_SuccessEndsRetry ==
    rt.active =>
        \A k \in 1..Len(rt.attemptOps) :
            AttemptOp(k).state = Fulfilled =>
                /\ Len(rt.attemptOps) = k
                /\ k <= rt.retries
                /\ Len(rt.waits) = k - 1
                /\ \A t \in 1..Len(timers) : timers[t].cb.kind = "sleep" =>
                        timers[t].cb.waiter[1] # "retry"
                /\ rt.outcome.kind \in {"none", "return"}
                /\ pc # "retry_await" =>
                      /\ rt.outcome.kind = "return"
                      /\ rt.outcome.value = AttemptOp(k).value
                      /\ rt.outcome.at = AttemptOp(k).settledAt

C3_Witness ==
    /\ rt.active
    /\ pc = "done"
    /\ Len(rt.attemptOps) = 3
    /\ AttemptOp(3).state = Fulfilled
    /\ rt.outcome.kind = "return"

\* the outcome handed to the caller of a harness entry
Delivered == returned[1]

\* C4: withTimeout rejects with 'timeout after <ms>ms', ms after the call,
\* when the operation's delay exceeds ms, and settles as the operation does,
\* when the operation's delay is below ms; demoTimeout (500 ms against 250 ms)
\* always ends with the timeout.
C4_TimeoutDecidedByDelay ==
    /\ (entry.kind = "withTimeout" /\ pc = "done") =>
          /\ entry.opMs > entry.ms =>
                /\ Delivered.kind = "throw"
                /\ Delivered.value.message = <<"timeout after ", "250", "ms">>
                /\ Delivered.at = entry.ms
          /\ entry.opMs < entry.ms =>
                /\ Delivered.kind =
                      (IF ops[1].state = Fulfilled THEN "return" ELSE "throw")
                /\ Delivered.value = ops[1].value
                /\ Delivered.at = entry.opMs
                /\ ops[1].state = Fulfilled =>
                      /\ Delivered.value.name = "operation"
                      /\ Delivered.value.durationMs = entry.opMs
    /\ IsMain =>
          /\ \A k \in 1..Len(log) : log[k].tag = "success:" =>
                log[k].v.name # "operation"
          /\ \A k \in 1..Len(returned) : returned[k].name = "demoTimeout" =>
                \E j \in 1..Len(log) :
                    /\ log[j].tag = "timeout/error:"
                    /\ log[j].v.message = <<"timeout after ", "250", "ms">>
                    /\ returned[k].at - returned[k - 1].at = 250

\* the timeout has won against a slower operation, which then still settled
C4_Witness ==
    /\ entry.kind = "withTimeout"
    /\ pc = "done"
    /\ entry.opMs > entry.ms
    /\ Delivered.kind = "throw"
    /\ ops[1].state = Fulfilled
    /\ combs[1].late = 1


\* a race that has settled while input k, a fakeIO promise, is still pending
RaceLeftBehind(c, k) ==
    /\ combs[c].kind = "race"
    /\ combs[c].state # Pending
    /\ combs[c].inputs[k][1] = "op"
    /\ ops[combs[c].inputs[k][2]].state = Pending

\* C5: once a race (Promise.race of demoRace, withTimeout) has settled, its
\* state and value never change, whatever the losing side does later; no
\* rejection is ever left unhandled; and the losing operation is not
\* cancelled: its timer stays registered until it fires.
C5_RaceOutcomeFixed ==
    /\ [][\A c \in 1..Len(combs) :
            (combs[c].kind = "race" /\ combs[c].state # Pending) =>
                /\ combs'[c].state = combs[c].state
                /\ combs'[c].value = combs[c].value]_vars
    /\ [](unhandled = {})
    /\ [](\A c \in 1..Len(combs) : \A k \in 1..Len(combs[c].inputs) :
            RaceLeftBehind(c, k) =>
                \E t \in 1..Len(timers) :
                    /\ timers[t].cb.kind = "sleep"
                    /\ timers[t].cb.waiter = <<"fakeIO", combs[c].inputs[k][2]>>)

\* the loser of demoRace settles while demoRetry is running
C5_Witness ==
    /\ IsMain
    /\ started # <<>>
    /\ started[Len(started)] = "demoRetry"
    /\ Len(returned) < Len(started)
    /\ \E c \in 1..Len(combs) :
          /\ combs[c].kind = "race"
          /\ combs[c].late = 1
          /\ combs[c].value.name = "fast"
          /\ \E i \in 1..Len(ops) :
                /\ ops[i].name = "slow"
                /\ ops[i].state = Fulfilled
                /\ ops[i].settledAt = now

\* C6: in main(), whatever the operations' outcomes, every scenario returns
\* normally to the runner, nothing is left unhandled, and the run ends having
\* called every scenario.
C6_NoFailureReachesRunner ==
    IsMain =>
        /\ \A k \in 1..Len(returned) : returned[k].kind = "return"
        /\ pc # "crashed"
        /\ unhandled = {}
        /\ (timers = <<>> /\ ~RunnerReady) =>
              /\ pc = "done"
              /\ Len(started) = (IF entry.file = "index.js" THEN 8 ELSE 6)
              /\ Len(returned) = Len(started)

\* a finished run of index.js in which operations failed inside scenarios
C6_Witness ==
    /\ IsMain
    /\ entry.file = "index.js"
    /\ pc = "done"
    /\ rt.outcome.kind = "throw"
    /\ \E i \in 1..Len(ops) : ops[i].name = "S2" /\ ops[i].state = Rejected
    /\ \E i \in 1..Len(ops) : ops[i].name = "S3" /\ ops[i].state = Rejected

\* C7: the result of Promise.allSettled in demoAllSettled has one entry per
\* submitted operation, entry i describing operation i (S1, S2, S3) with the
\* tag and the value or reason of that operation's own outcome, although S3
\* settles first; Promise.allSettled never rejects and the scenario returns.
C7_SettledInSubmissionOrder ==
    /\ \A c \in 1..Len(combs) :
          (combs[c].kind = "allSettled" /\ combs[c].state # Pending) =>
              /\ combs[c].state = Fulfilled
              /\ Len(combs[c].value.items) = Len(combs[c].inputs)
              /\ Len(combs[c].inputs) = 3
              /\ \A k \in 1..Len(combs[c].inputs) :
                    LET op == ops[combs[c].inputs[k][2]]
                        e == combs[c].value.items[k] IN
                    /\ op.name = <<"S1", "S2", "S3">>[k]
                    /\ e.status = (IF op.state = Fulfilled THEN "fulfilled"
                                   ELSE "rejected")
                    /\ op.state = Fulfilled =>
                          e.value = op.value /\ e.value.name = op.name
                    /\ op.state = Rejected =>
                          e.reason = op.value
                          /\ e.reason.message = <<"[", op.name, "] failed (simulated)">>
              /\ ops[combs[c].inputs[3][2]].settledAt
                    < ops[combs[c].inputs[1][2]].settledAt
              /\ ops[combs[c].inputs[1][2]].settledAt
                    < ops[combs[c].inputs[2][2]].settledAt
    /\ \A k \in 1..Len(returned) :
          returned[k].name = "demoAllSettled" => returned[k].kind = "return"

C7_Witness ==
    /\ \E k \in 1..Len(returned) : returned[k].name = "demoAllSettled"
    /\ \E c \in 1..Len(combs) :
          /\ combs[c].kind = "allSettled"
          /\ combs[c].state = Fulfilled
          /\ combs[c].value.items[2].status = "rejected"
          /\ combs[c].value.items[3].status = "fulfilled"

\* C8: Promise.race over two never-failing operations with different delays
\* delivers the result of the one with the shorter delay, whichever was
\* submitted first; demoRace's winner is 'fast', submitted second.
C8_ShorterDelayWins ==
    /\ (entry.kind = "race" /\ pc = "done" /\ entry.ms1 # entry.ms2
            /\ entry.rate1 = 0 /\ entry.rate2 = 0) =>
          /\ Delivered.kind = "return"
          /\ Delivered.value.name =
                (IF entry.ms1 < entry.ms2 THEN "first" ELSE "second")
          /\ Delivered.value.durationMs =
                (IF entry.ms1 < entry.ms2 THEN entry.ms1 ELSE entry.ms2)
    /\ IsMain =>
          /\ \A k \in 1..Len(log) : log[k].tag = "winner:" =>
                log[k].v = [kind |-> "string", text |-> "fast"]
          /\ \A k \in 1..Len(returned) : returned[k].name = "demoRace" =>
                \E j \in 1..Len(log) : log[j].tag = "winner:"

\* the operation submitted second wins with the shorter delay
C8_Witness ==
    /\ entry.kind = "race"
    /\ pc = "done"
    /\ entry.ms2 < entry.ms1
    /\ entry.rate1 = 0
    /\ entry.rate2 = 0
    /\ Delivered.value.name = "second"

\* the order the specification gives for the scenarios of index.js
ExpectedOrder ==
    <<"demoPromiseChain", "demoAsyncAwait", "demoParallelAll",
      "demoAllSettled", "demoRace", "demoTimeout", "demoRetry", "demoPipeline">>

\* C9: main() of index.js calls chain, sequential-await, parallel-all,
\* settle-all, race, timeout, retry, pipeline in this order, once each, and
\* calls a scenario only after the one before has returned to it.
C9_FixedOrderOneAtATime ==
    IsMain =>
        /\ Len(started) <= 8
        /\ started = SubSeq(ExpectedOrder, 1, Len(started))
        /\ Len(returned) <= Len(started)
        /\ Len(started) <= Len(returned) + 1
        /\ \A k \in 1..Len(returned) : returned[k].name = started[k]
        /\ \A i \in 1..Len(ops) : \A k \in 1..Len(returned) :
              ops[i].by = started[k] => ops[i].startedAt <= returned[k].at
        /\ \A i \in 1..Len(ops) : \A k \in 2..Len(started) :
              ops[i].by = started[k] => ops[i].startedAt >= returned[k - 1].at
        /\ (pc = "done" /\ entry.file = "index.js") => started = ExpectedOrder

C9_Witness ==
    /\ IsMain
    /\ entry.file = "index.js"
    /\ pc = "done"
    /\ Len(returned) = 8

\* C10: under a fair event loop main() always reaches its final Done step,
\* and demoRetry's retry makes at most 4 attempts before it gives its outcome.
C10_RunnerFinishes ==
    /\ IsMain => <>(pc = "done")
    /\ [](rt.caller = "demoRetry" => Len(rt.attemptOps) <= 4)
    /\ (IsMain /\ entry.file = "index.js") =>
          <>(rt.caller = "demoRetry" /\ rt.outcome.kind \in {"return", "throw"})

C10_Witness ==
    /\ IsMain
    /\ pc = "done"
    /\ rt.caller = "demoRetry"
    /\ Len(rt.attemptOps) = 4
    /\ rt.outcome.kind = "throw"
    /\ log[Len(log)].tag = "Done"


\* the fakeIO promises with the given name, in creation order
OpsNamed(name) == SelectSeq(ops, LAMBDA op : op.name = name)

\* the lines of the log with the given tag
LinesTagged(tag) == SelectSeq(log, LAMBDA l : l.tag = tag)

\* what the scenario gave back, once it has
ReturnOf(name) == SelectSeq(returned, LAMBDA r : r.name = name)

\* the position of the first line with the given tag
FirstLine(tag) == CHOOSE k \in 1..Len(log) : log[k].tag = tag

\* C11: demoPromiseChain returns 'final result from promise chain' when both
\* steps succeed and 'chain recovered with fallback' when step 1 or step 2
\* fails, never failing itself; the finally handler has run exactly once when
\* it returns, after the value or the fallback was determined.
C11_ChainValueOrFallback ==
    \A k \in 1..Len(returned) : returned[k].name = "demoPromiseChain" =>
        LET steps == OpsNamed("step-1") \o OpsNamed("step-2")
            failed == \E i \in 1..Len(steps) : steps[i].state = Rejected IN
        /\ returned[k].kind = "return"
        /\ \A i \in 1..Len(steps) : steps[i].state # Pending
        /\ ~failed =>
              /\ Len(steps) = 2
              /\ returned[k].value =
                    [kind |-> "string", text |-> "final result from promise chain"]
              /\ Len(LinesTagged("error in chain:")) = 0
        /\ failed =>
              /\ returned[k].value =
                    [kind |-> "string", text |-> "chain recovered with fallback"]
              /\ Len(LinesTagged("error in chain:")) = 1
              /\ FirstLine("error in chain:") < FirstLine("finally: always executed")
        /\ Len(LinesTagged("finally: always executed")) = 1
        /\ \A j \in 1..Len(log) : log[j].tag = "success:" /\ log[j].v.name \in {"step-1", "step-2"} =>
              j < FirstLine("finally: always executed")
        /\ returned[k].at = steps[Len(steps)].settledAt

\* step 1 succeeded, step 2 failed, and the chain returned its fallback
C11_Witness ==
    /\ ReturnOf("demoPromiseChain") # <<>>
    /\ Len(OpsNamed("step-2")) = 1
    /\ OpsNamed("step-2")[1].state = Rejected
    /\ ReturnOf("demoPromiseChain")[1].value.text = "chain recovered with fallback"


\* C12: a fakeIO promise settles exactly once, exactly ms after the call and
\* never before; with failRate 0 it always fulfils, with a result carrying the
\* given name and durationMs = ms; with failRate 1 it always rejects with the
\* message '[<name>] failed (simulated)'.
C12_FakeIOOutcome ==
    \A i \in 1..Len(ops) :
        LET op == ops[i] IN
        /\ op.settles = (IF op.state = Pending THEN 0 ELSE 1)
        /\ op.state = Pending =>
              /\ now <= op.startedAt + op.ms
              /\ \E t \in 1..Len(timers) :
                    /\ timers[t].cb.kind = "sleep"
                    /\ timers[t].cb.waiter = <<"fakeIO", i>>
                    /\ timers[t].due = op.startedAt + op.ms
        /\ op.state # Pending =>
              /\ op.settledAt = op.startedAt + op.ms
              /\ \A t \in 1..Len(timers) : timers[t].cb.kind = "sleep" =>
                    timers[t].cb.waiter # <<"fakeIO", i>>
              /\ op.failRate = 0 =>
                    /\ op.state = Fulfilled
                    /\ op.value.kind = "result"
                    /\ op.value.name = op.name
                    /\ op.value.durationMs = op.ms
                    /\ op.value.timestamp = op.settledAt
              /\ op.failRate = 100 =>
                    /\ op.state = Rejected
                    /\ op.value.kind = "error"
                    /\ op.value.message = <<"[", op.name, "] failed (simulated)">>

\* a call with failRate 1 has failed and one with failRate 0 has succeeded
C12_Witness ==
    /\ \E i \in 1..Len(ops) : ops[i].failRate = 100 /\ ops[i].state = Rejected
    /\ \E i \in 1..Len(ops) : ops[i].failRate = 0 /\ ops[i].state = Fulfilled


\* ops[i] lost a race that had settled by time `at`, and its own outcome, if
\* it has one by now, is not the race's
LostRaceBy(i, at) ==
    \E c \in 1..Len(combs) :
        /\ combs[c].kind = "race"
        /\ InputIndex(combs[c], <<"op", i>>) # 0
        /\ combs[c].state # Pending
        /\ combs[c].settledAt <= at
        /\ combs[c].value # ops[i].value

\* C13 as stated: when a scenario has returned to main(), every operation it
\* launched had settled by then.
C13_SettledOnReturn ==
    IsMain =>
        \A k \in 1..Len(returned) : \A i \in 1..Len(ops) :
            ops[i].by = returned[k].name =>
                /\ ops[i].state # Pending
                /\ ops[i].settledAt <= returned[k].at

\* C13, amended: when a scenario has returned to main(), every operation it
\* launched had settled by then, except the loser of a race (demoRace's 'slow',
\* demoTimeout's 'operation'), which settles later and whose outcome is not
\* the race's.
C13_SettledOnReturnButRaceLosers ==
    IsMain =>
        \A k \in 1..Len(returned) : \A i \in 1..Len(ops) :
            ops[i].by = returned[k].name =>
                \/ /\ ops[i].state # Pending
                   /\ ops[i].settledAt <= returned[k].at
                \/ /\ ops[i].name \in {"slow", "operation"}
                   /\ LostRaceBy(i, returned[k].at)

\* demoTimeout's operation has settled after demoTimeout returned
C13_Witness ==
    /\ IsMain
    /\ ReturnOf("demoTimeout") # <<>>
    /\ OpsNamed("operation")[1].state = Fulfilled
    /\ OpsNamed("operation")[1].settledAt > ReturnOf("demoTimeout")[1].at
    /\ pc # "done"


\* C14: the attempts of one retry are numbered from 1 and run one after the
\* other: only the latest can be pending, every earlier one has failed, and
\* attempt n + 1 is called exactly delayMs * n after attempt n failed,
\* whatever the earlier waits and however long the attempts took.
C14_SequentialLinearBackoff ==
    rt.active =>
        /\ pc = "retry_await" => rt.attempt = Len(rt.attemptOps)
        /\ \A k \in 1..Len(rt.attemptOps) :
              /\ AttemptOp(k).state = Pending => k = Len(rt.attemptOps)
              /\ k < Len(rt.attemptOps) =>
                    /\ AttemptOp(k).state = Rejected
                    /\ AttemptOp(k + 1).startedAt =
                          AttemptOp(k).settledAt + rt.delayMs * k
        /\ \A n \in 1..Len(rt.waits) :
              /\ rt.waits[n] = rt.delayMs * n
              /\ AttemptOp(n).state = Rejected
        /\ pc = "retry_backoff" =>
              /\ Len(rt.waits) = rt.attempt
              /\ \A k \in 1..Len(rt.attemptOps) : AttemptOp(k).state # Pending

\* a fourth attempt has been called, 450 ms after the third failed
C14_Witness ==
    /\ rt.active
    /\ rt.delayMs = 150
    /\ Len(rt.attemptOps) = 4
    /\ AttemptOp(4).startedAt = AttemptOp(3).settledAt + 450


\* the Promise.all whose first input is ops[i]
AllOver(i) ==
    SelectSeq(combs, LAMBDA c : c.kind = "all" /\ c.inputs[1] = <<"op", i>>)

\* C15: in demoPipeline the two process operations are started together, only
\* once fetch has succeeded, and are in flight at the same time; save is
\* started only after both have succeeded; the value returned lists the
\* processed parts in submission order, part 1 then part 2.
C15_PipelineStages ==
    LET fetch == OpsNamed("fetch-data")
        part1 == OpsNamed("process-part-1")
        part2 == OpsNamed("process-part-2")
        save == OpsNamed("save")
        ret == ReturnOf("demoPipeline") IN
    /\ Len(part1) = Len(part2)
    /\ part1 # <<>> =>
          /\ fetch[1].state = Fulfilled
          /\ part1[1].startedAt = fetch[1].settledAt
          /\ part2[1].startedAt = part1[1].startedAt
          /\ part2[1].startedAt < part1[1].startedAt + part1[1].ms
          /\ part1[1].startedAt < part2[1].startedAt + part2[1].ms
          /\ part2[1].id = part1[1].id + 1
          /\ \A c \in 1..Len(AllOver(part1[1].id)) :
                AllOver(part1[1].id)[c].state = Fulfilled =>
                    part1[1].state = Fulfilled /\ part2[1].state = Fulfilled
    /\ (fetch # <<>> /\ fetch[1].state # Fulfilled) => part1 = <<>>
    /\ save # <<>> =>
          /\ part1 # <<>>
          /\ part1[1].state = Fulfilled
          /\ part2[1].state = Fulfilled
          /\ save[1].startedAt >= part1[1].settledAt
          /\ save[1].startedAt >= part2[1].settledAt
    /\ (part1 # <<>> /\ (part1[1].state # Fulfilled \/ part2[1].state # Fulfilled))
          => save = <<>>
    /\ (ret # <<>> /\ ret[1].kind = "return") =>
          /\ ret[1].value.fetched = fetch[1].value
          /\ ret[1].value.processed = <<part1[1].value, part2[1].value>>
          /\ Names(ret[1].value.processed) = <<"process-part-1", "process-part-2">>
          /\ ret[1].value.saved = save[1].value

\* the pipeline has returned its value
C15_Witness ==
    /\ ReturnOf("demoPipeline") # <<>>
    /\ ReturnOf("demoPipeline")[1].kind = "return"
    /\ OpsNamed("save")[1].state = Fulfilled


\* C16: demoParallelAll starts A, B and C together; it goes on only once all
\* three have succeeded, with the results in the order A, B, C although C
\* settles first and A last; when any of them fails the scenario fails, with
\* that failure.
C16_ParallelAllOrFail ==
    LET a == OpsNamed("A")
        b == OpsNamed("B")
        c == OpsNamed("C")
        ret == ReturnOf("demoParallelAll") IN
    a # <<>> =>
        LET trio == <<a[1], b[1], c[1]>>
            failed == {k \in 1..3 : trio[k].state = Rejected} IN
        /\ Len(b) = 1 /\ Len(c) = 1
        /\ b[1].startedAt = a[1].startedAt
        /\ c[1].startedAt = a[1].startedAt
        /\ now < a[1].startedAt + c[1].ms =>
              \A k \in 1..3 : trio[k].state = Pending
        /\ (ret # <<>> /\ ret[1].kind = "return") =>
              /\ failed = {}
              /\ \A k \in 1..3 :
                    trio[k].state = Fulfilled /\ trio[k].settledAt <= ret[1].at
              /\ c[1].settledAt < b[1].settledAt
              /\ b[1].settledAt < a[1].settledAt
              /\ AllOver(a[1].id)[1].value.items =
                    <<a[1].value, b[1].value, c[1].value>>
              /\ LinesTagged("results:")[1].v.items = <<"A", "B", "C">>
        /\ (failed # {} /\ pc # "all_await") =>
              /\ ret # <<>>
              /\ ret[1].kind = "throw"
              /\ \E k \in failed :
                    /\ ret[1].value = trio[k].value
                    /\ ret[1].at = trio[k].settledAt
                    /\ \A j \in failed : trio[k].settledAt <= trio[j].settledAt
              /\ LinesTagged("results:") = <<>>

\* B failed after C had succeeded, and the scenario failed while A was running
C16_Witness ==
    /\ ReturnOf("demoParallelAll") # <<>>
    /\ ReturnOf("demoParallelAll")[1].kind = "throw"
    /\ OpsNamed("C")[1].state = Fulfilled
    /\ OpsNamed("B")[1].state = Rejected
    /\ OpsNamed("A")[1].state = Pending


\* the second operation of a two-step scenario waits for the first to succeed;
\* when the first fails the second is never started and the scenario returns
\* `fallback`, its one handler having printed the first's error under `tag`
SecondAfterFirst(scenario, first, second, tag, fallback) ==
    LET s1 == OpsNamed(first)
        s2 == OpsNamed(second)
        ret == ReturnOf(scenario) IN
    /\ s2 # <<>> =>
          /\ s1[1].state = Fulfilled
          /\ s2[1].startedAt = s1[1].settledAt
    /\ (s1 # <<>> /\ s1[1].state = Rejected) =>
          /\ s2 = <<>>
          /\ ret # <<>> =>
                /\ ret[1].kind = "return"
                /\ ret[1].value = [kind |-> "string", text |-> fallback]
                /\ Len(LinesTagged(tag)) = 1
                /\ LinesTagged(tag)[1].v = s1[1].value
    /\ Len(LinesTagged(tag)) <= 1
    /\ (s1 # <<>> /\ s1[1].state = Pending) => ret = <<>>

\* C17: in demoPromiseChain and in demoAsyncAwait the second operation is
\* started only after the first has succeeded; when the first fails the second
\* is never started and the scenario returns its fallback value through its
\* single failure handler.
C17_SecondStepNeedsFirst ==
    /\ SecondAfterFirst("demoPromiseChain", "step-1", "step-2",
                        "error in chain:", "chain recovered with fallback")
    /\ SecondAfterFirst("demoAsyncAwait", "await-1", "await-2",
                        "error in async/await:", "async/await fallback result")

\* the first step of the chain failed and the chain has returned
C17_Witness ==
    /\ ReturnOf("demoPromiseChain") # <<>>
    /\ OpsNamed("step-1")[1].state = Rejected
    /\ OpsNamed("step-2") = <<>>

\* C18: withTimeout(fakeIO("operation", ms, failRate), ms), the operation
\* started before the wrapper's timer and as long as the timeout: the two
\* timers are due together and fire in registration order, so the operation
\* settles the race, at ms, with its own result or its own failure, and the
\* later timeout rejection is ignored: no timeout is reported.
C18_TieGoesToOperation ==
    (entry.kind = "withTimeout" /\ entry.opMs = entry.ms) =>
        /\ combs # <<>> =>
              /\ combs[1].state # Pending =>
                    /\ ops[1].state # Pending
                    /\ combs[1].state = ops[1].state
                    /\ combs[1].value = ops[1].value
                    /\ combs[1].settledAt = entry.ms
              /\ combs[1].value # Err(TimeoutMessage(entry.ms), <<"timer", 1>>)
        /\ pc = "done" =>
              /\ Delivered.kind =
                    (IF ops[1].state = Fulfilled THEN "return" ELSE "throw")
              /\ Delivered.value = ops[1].value
              /\ Delivered.at = entry.ms
              /\ ops[1].state = Fulfilled =>
                    Delivered.value.name = "operation"
              /\ ops[1].state = Rejected =>
                    Delivered.value.message = FailedMessage("operation")

\* the tie has been played: the operation fulfilled, the caller got its
\* result, and the timeout's rejection came late
C18_Witness ==
    /\ entry.kind = "withTimeout"
    /\ entry.opMs = entry.ms
    /\ pc = "done"
    /\ Delivered.kind = "return"
    /\ Delivered.value.name = "operation"
    /\ combs[1].late = 1
    /\ timers = <<>>

\* C19: retry called with retries <= 0 never calls fn and never waits, and
\* rejects at once with lastError as it was declared, undefined, not with an
\* Error carrying a message.
C19_NoBudgetRejectsUndefined ==
    (rt.active /\ rt.retries <= 0) =>
        /\ rt.attemptOps = <<>>
        /\ rt.waits = <<>>
        /\ ops = <<>>
        /\ timers = <<>>
        /\ now = rt.calledAt
        /\ rt.outcome = [kind |-> "throw", value |-> Undefined,
                         at |-> rt.calledAt]
        /\ pc = "done" =>
              /\ Delivered.kind = "throw"
              /\ Delivered.value = Undefined
              /\ Delivered.at = rt.calledAt

\* the caller of retry(fn, {retries: 0}) has caught undefined
C19_Witness ==
    /\ entry.kind = "retry"
    /\ entry.retries = 0
    /\ entry.failRate = 0
    /\ pc = "done"
    /\ Delivered.kind = "throw"
    /\ Delivered.value = Undefined
    /\ ops = <<>>

============================================================================
